---- MODULE Spec2Model ----
(***************************************************************************)
(* Model of the ink! ERC20 contract of src/lesson5/erc20/lib.rs.           *)
(*                                                                         *)
(* The contract storage (total_supply, balances, allowances) is the state; *)
(* the host environment supplies the caller of every message and collects  *)
(* the events a message emits.  Each message is one atomic step, followed  *)
(* by a step that hands its result and events back.  Balance is an         *)
(* unsigned integer of fixed width, scaled here to 0..BalanceMax.          *)
(***************************************************************************)
EXTENDS Integers, Sequences, FiniteSets, TLC

\* ---------------------------------------------------------------- bounds
\* Largest value of the (scaled) Balance type; u128 in the contract.
BalanceMax == 2
\* Number of messages the host dispatches in one explored run.
MaxCalls == 2
\* Number of messages in a run of approvals and delegated transfers.
DelegationDepth == 3

\* The accounts of the environment (the ink! default test accounts).  The
\* contract never inspects an AccountId, so accounts are interchangeable and
\* the deployer is named alice, the default caller of the tests.
Accounts == {"alice", "bob", "charlie"}
Deployer == "alice"

Balance == 0..BalanceMax
Modulus == BalanceMax + 1

VARIABLES
    total_supply,   \* Erc20.total_supply
    balances,       \* Erc20.balances   : partial map AccountId -> Balance
    allowances,     \* Erc20.allowances : partial map (AccountId, AccountId) -> Balance
    events,         \* events emitted to the host and not yet handed on, oldest first
    last,           \* the message being answered, with its arguments and result
    pre,            \* the storage and event log when that message was entered
    supply0,        \* the argument the constructor was called with
    grants,         \* per (owner, spender): the value last approved, and the value
                    \* moved by the spender's successful transfer_from calls since
    ncalls          \* number of messages dispatched so far

vars == <<total_supply, balances, allowances, events, last, pre, supply0, grants, ncalls>>

\* ---------------------------------------------------------------- results
Ok == "Ok"
InsufficentBalance == "InsufficentBalance"
InsufficentAllowance == "InsufficentAllowance"
\* An arithmetic overflow that the build traps: the message is reverted.
Panic == "Panic"

\* ---------------------------------------------------------------- events
Transfer(from, to, value) ==
    [kind |-> "Transfer", from |-> from, to |-> to, value |-> value]

Approve(from, to, value) ==
    [kind |-> "Approve", from |-> from, to |-> to, value |-> value]

\* ---------------------------------------------------------------- storage
\* StorageHashMap::insert
insert(m, k, v) ==
    [x \in (DOMAIN m) \cup {k} |-> IF x = k THEN v ELSE m[x]]

\* Balance arithmetic.  Out of range, the build either traps (overflow
\* checks on) or wraps modulo the width (overflow checks off).
sub(a, b) ==
    IF a >= b
    THEN {[trap |-> FALSE, val |-> a - b]}
    ELSE {[trap |-> TRUE, val |-> 0], [trap |-> FALSE, val |-> a - b + Modulus]}

add(a, b) ==
    IF a + b <= BalanceMax
    THEN {[trap |-> FALSE, val |-> a + b]}
    ELSE {[trap |-> TRUE, val |-> 0], [trap |-> FALSE, val |-> a + b - Modulus]}

new_no_credit(caller, supply) ==
    [total_supply |-> supply,
     balances |-> insert(<<>>, caller, 0),
     allowances |-> <<>>]

new(caller, supply) ==
    [total_supply |-> supply,
     balances |-> insert(<<>>, caller, supply),
     allowances |-> <<>>]

balance_of(self, owner) ==
    IF owner \in DOMAIN self.balances THEN self.balances[owner] ELSE 0

allowance(self, owner, spender) ==
    IF <<owner, spender>> \in DOMAIN self.allowances
    THEN self.allowances[<<owner, spender>>]
    ELSE 0

Return(result, self, ev) ==
    [result |-> result, self |-> self, events |-> ev]

\* ---------------------------------------------------------------- transfer_help
\* Each message operator yields the set of outcomes the build can produce:
\* the result, the storage and the event log after the message.

\* Mutation: the destination is not credited.
transfer_help_no_credit(self, ev, from, to, value) ==
    LET _from_balance == balance_of(self, from) IN
    IF _from_balance < value
    THEN {Return(InsufficentBalance, self, ev)}
    ELSE {Return(Ok, [self EXCEPT !.balances = insert(@, from, _from_balance - value)],
                 Append(ev, Transfer(from, to, value)))}

\* Mutation: the balance check rejects a transfer of the whole balance.
transfer_help_le(self, ev, from, to, value) ==
    LET _from_balance == balance_of(self, from) IN
    IF _from_balance <= value
    THEN {Return(InsufficentBalance, self, ev)}
    ELSE LET self1 == [self EXCEPT !.balances = insert(@, from, _from_balance - value)]
             _to_balance == balance_of(self1, to)
         IN  {Return(Ok, [self1 EXCEPT !.balances = insert(@, to, _to_balance + value)],
                     Append(ev, Transfer(from, to, value)))}

\* Mutation: the destination balance is read before the debit is stored.
transfer_help_stale(self, ev, from, to, value) ==
    LET _from_balance == balance_of(self, from)
        _to_balance == balance_of(self, to)
    IN
    IF _from_balance < value
    THEN {Return(InsufficentBalance, self, ev)}
    ELSE LET self1 == [self EXCEPT !.balances = insert(@, from, _from_balance - value)]
         IN  {Return(Ok, [self1 EXCEPT !.balances = insert(@, to, (_to_balance + value) % Modulus)],
                     Append(ev, Transfer(from, to, value)))}

\* Mutation: the balance is not checked before the debit.
transfer_help_unchecked(self, ev, from, to, value) ==
    LET _from_balance == balance_of(self, from) IN
    UNION {
        IF d.trap
        THEN {Return(Panic, self, ev)}
        ELSE LET self1 == [self EXCEPT !.balances = insert(@, from, d.val)]
                 _to_balance == balance_of(self1, to)
             IN  { IF c.trap
                   THEN Return(Panic, self, ev)
                   ELSE Return(Ok,
                               [self1 EXCEPT !.balances = insert(@, to, c.val)],
                               Append(ev, Transfer(from, to, value)))
                   : c \in add(_to_balance, value) }
        : d \in sub(_from_balance, value) }

\* Mutation: the notification is emitted before the balance is checked.
transfer_help_emit_first(self, ev, from, to, value) ==
    LET _from_balance == balance_of(self, from)
        ev1 == Append(ev, Transfer(from, to, value))
    IN
    IF _from_balance < value
    THEN {Return(InsufficentBalance, self, ev1)}
    ELSE LET self1 == [self EXCEPT !.balances = insert(@, from, _from_balance - value)]
             _to_balance == balance_of(self1, to)
         IN  {Return(Ok, [self1 EXCEPT !.balances = insert(@, to, _to_balance + value)], ev1)}

transfer_help(self, ev, from, to, value) ==
    LET _from_balance == balance_of(self, from) IN
    IF _from_balance < value
    THEN {Return(InsufficentBalance, self, ev)}
    ELSE UNION {
        IF d.trap
        THEN {Return(Panic, self, ev)}
        ELSE LET self1 == [self EXCEPT !.balances = insert(@, from, d.val)]
                 _to_balance == balance_of(self1, to)
             IN  { IF c.trap
                   THEN Return(Panic, self, ev)
                   ELSE Return(Ok,
                               [self1 EXCEPT !.balances = insert(@, to, c.val)],
                               Append(ev, Transfer(from, to, value)))
                   : c \in add(_to_balance, value) }
        : d \in sub(_from_balance, value) }

\* ---------------------------------------------------------------- transfer
transfer(self, ev, who, to, value) ==
    transfer_help(self, ev, who, to, value)

\* ---------------------------------------------------------------- transfer_from
\* Mutation: the allowance of the pair (from, to) is decremented.
transfer_from_key_to(self, ev, who, from, to, value) ==
    LET _allowance_balance == allowance(self, from, who) IN
    IF _allowance_balance < value
    THEN {Return(InsufficentAllowance, self, ev)}
    ELSE { IF r.result # Ok
           THEN r
           ELSE Return(Ok,
                       [r.self EXCEPT !.allowances =
                            insert(@, <<from, to>>, _allowance_balance - value)],
                       r.events)
           : r \in transfer_help(self, ev, from, to, value) }

\* Mutation: the balance is checked before the allowance.
transfer_from_balance_first(self, ev, who, from, to, value) ==
    LET _allowance_balance == allowance(self, from, who) IN
    IF balance_of(self, from) < value
    THEN {Return(InsufficentBalance, self, ev)}
    ELSE IF _allowance_balance < value
    THEN {Return(InsufficentAllowance, self, ev)}
    ELSE { IF r.result # Ok
           THEN r
           ELSE Return(Ok,
                       [r.self EXCEPT !.allowances =
                            insert(@, <<from, who>>, _allowance_balance - value)],
                       r.events)
           : r \in transfer_help(self, ev, from, to, value) }

\* Mutation: the allowance is consumed before the transfer is attempted.
transfer_from_consume_first(self, ev, who, from, to, value) ==
    LET _allowance_balance == allowance(self, from, who) IN
    IF _allowance_balance < value
    THEN {Return(InsufficentAllowance, self, ev)}
    ELSE LET self1 == [self EXCEPT !.allowances =
                           insert(@, <<from, who>>, _allowance_balance - value)]
         IN  transfer_help(self1, ev, from, to, value)

\* Mutation: the allowance is not checked; it is decremented down to zero.
transfer_from_unchecked(self, ev, who, from, to, value) ==
    LET _allowance_balance == allowance(self, from, who) IN
    { IF r.result # Ok
      THEN r
      ELSE Return(Ok,
                  [r.self EXCEPT !.allowances =
                       insert(@, <<from, who>>,
                              IF _allowance_balance < value
                              THEN 0
                              ELSE _allowance_balance - value)],
                  r.events)
      : r \in transfer_help(self, ev, from, to, value) }

\* Mutation: the allowance check rejects spending the whole allowance.
transfer_from_le(self, ev, who, from, to, value) ==
    LET _allowance_balance == allowance(self, from, who) IN
    IF _allowance_balance <= value
    THEN {Return(InsufficentAllowance, self, ev)}
    ELSE { IF r.result # Ok
           THEN r
           ELSE Return(Ok,
                       [r.self EXCEPT !.allowances =
                            insert(@, <<from, who>>, _allowance_balance - value)],
                       r.events)
           : r \in transfer_help(self, ev, from, to, value) }

transfer_from(self, ev, who, from, to, value) ==
    LET _allowance_balance == allowance(self, from, who) IN
    IF _allowance_balance < value
    THEN {Return(InsufficentAllowance, self, ev)}
    ELSE UNION {
        IF r.result # Ok
        THEN {r}
        ELSE { IF d.trap
               THEN Return(Panic, self, ev)
               ELSE Return(Ok,
                           [r.self EXCEPT !.allowances =
                                insert(@, <<from, who>>, d.val)],
                           r.events)
               : d \in sub(_allowance_balance, value) }
        : r \in transfer_help(self, ev, from, to, value) }

\* ---------------------------------------------------------------- approve
\* Mutation: the new value is added to the stored allowance.
approve_accumulate(self, ev, who, spender, value) ==
    {Return(Ok,
            [self EXCEPT !.allowances =
                 insert(@, <<who, spender>>, (allowance(self, who, spender) + value) % Modulus)],
            Append(ev, Approve(who, spender, value)))}

\* Mutation: the notification names the spender as the owner.
approve_event_swapped(self, ev, who, spender, value) ==
    {Return(Ok,
            [self EXCEPT !.allowances = insert(@, <<who, spender>>, value)],
            Append(ev, Approve(spender, who, value)))}

\* Mutation: the allowance is granted in both directions.
approve_symmetric(self, ev, who, spender, value) ==
    {Return(Ok,
            [self EXCEPT !.allowances =
                 insert(insert(@, <<who, spender>>, value), <<spender, who>>, value)],
            Append(ev, Approve(who, spender, value)))}

approve(self, ev, who, spender, value) ==
    {Return(Ok,
            [self EXCEPT !.allowances = insert(@, <<who, spender>>, value)],
            Append(ev, Approve(who, spender, value)))}

\* ---------------------------------------------------------------- the machine
Self ==
    [total_supply |-> total_supply, balances |-> balances, allowances |-> allowances]

\* The storage and the event log as they are when a message is entered.
Snapshot ==
    [total_supply |-> total_supply, balances |-> balances,
     allowances |-> allowances, events |-> events]

\* Nothing is deployed, or no message is being answered.
Blank ==
    [total_supply |-> 0, balances |-> <<>>, allowances |-> <<>>, events |-> <<>>]

Call(op, caller, from, to, value, result) ==
    [op |-> op, caller |-> caller, from |-> from, to |-> to,
     value |-> value, result |-> result]

NoCall == Call("none", "none", "none", "none", 0, Ok)

\* The record of approvals and delegated transfers after a message: a
\* successful approve starts a new grant, a successful transfer_from adds to
\* what the caller has moved out of from.
Granted(op, caller, from, to, value, result) ==
    IF result = Ok /\ op = "approve"
    THEN [grants EXCEPT ![<<caller, to>>] = [approved |-> value, moved |-> 0]]
    ELSE IF result = Ok /\ op = "transfer_from"
    THEN [grants EXCEPT ![<<from, caller>>].moved = @ + value]
    ELSE grants

\* The host commits the outcome o of a message; a trapped message is reverted.
Commit(op, caller, from, to, value, o) ==
    /\ IF o.result = Panic
       THEN UNCHANGED <<total_supply, balances, allowances, events>>
       ELSE /\ total_supply' = o.self.total_supply
            /\ balances' = o.self.balances
            /\ allowances' = o.self.allowances
            /\ events' = o.events
    /\ last' = Call(op, caller, from, to, value, o.result)
    /\ pre' = Snapshot
    /\ grants' = Granted(op, caller, from, to, value, o.result)
    /\ ncalls' = ncalls + 1
    /\ UNCHANGED supply0

Init ==
    \E caller \in {Deployer}, supply \in Balance :
        LET self == new(caller, supply) IN
        /\ total_supply = self.total_supply
        /\ balances = self.balances
        /\ allowances = self.allowances
        /\ events = <<>>
        /\ last = Call("new", caller, caller, caller, supply, Ok)
        /\ pre = Blank
        /\ supply0 = supply
        /\ grants = [p \in Accounts \X Accounts |-> [approved |-> 0, moved |-> 0]]
        /\ ncalls = 0

\* Messages are dispatched one at a time: the next one is entered only after
\* the result of the previous one has been handed back.
Idle == last = NoCall /\ ncalls < MaxCalls

CallTransfer ==
    \E who \in Accounts, to \in Accounts, value \in Balance :
        /\ Idle
        /\ \E o \in transfer(Self, events, who, to, value) :
               Commit("transfer", who, who, to, value, o)

CallTransferFrom ==
    \E who \in Accounts, from \in Accounts, to \in Accounts, value \in Balance :
        /\ Idle
        /\ \E o \in transfer_from(Self, events, who, from, to, value) :
               Commit("transfer_from", who, from, to, value, o)

CallApprove ==
    \E who \in Accounts, spender \in Accounts, value \in Balance :
        /\ Idle
        /\ \E o \in approve(Self, events, who, spender, value) :
               Commit("approve", who, who, spender, value, o)

\* The result of the constructor or of a message is handed back to the caller
\* and its events to the event collaborator.
Done ==
    /\ last # NoCall
    /\ last' = NoCall
    /\ pre' = Blank
    /\ events' = <<>>
    /\ UNCHANGED <<total_supply, balances, allowances, supply0, grants, ncalls>>

Next == CallTransfer \/ CallTransferFrom \/ CallApprove \/ Done

Spec == Init /\ [][Next]_vars

\* Runs of approvals and delegated transfers only: the deployer, who holds the
\* supply, approves spenders, and callers move value out of the deployer.
Granting == last = NoCall /\ ncalls < DelegationDepth

OwnerApproves ==
    \E spender \in Accounts, value \in Balance :
        /\ Granting
        /\ \E o \in approve(Self, events, Deployer, spender, value) :
               Commit("approve", Deployer, Deployer, spender, value, o)

SpenderPulls ==
    \E who \in Accounts, to \in Accounts, value \in Balance :
        /\ Granting
        /\ \E o \in transfer_from(Self, events, who, Deployer, to, value) :
               Commit("transfer_from", who, Deployer, to, value, o)

NextDelegation == OwnerApproves \/ SpenderPulls \/ Done

SpecDelegation == Init /\ [][NextDelegation]_vars

\* ---------------------------------------------------------------- properties
RECURSIVE SumOver(_, _)
SumOver(m, keys) ==
    IF keys = {}
    THEN 0
    ELSE LET k == CHOOSE x \in keys : TRUE IN m[k] + SumOver(m, keys \ {k})

\* The sum of all stored balances.
SumBalances == SumOver(balances, DOMAIN balances)

Pairs == Accounts \X Accounts

\* The storage is exactly as it was when the message was entered.
StorageUntouched ==
    /\ total_supply = pre.total_supply
    /\ balances = pre.balances
    /\ allowances = pre.allowances

\* No allowance query answers differently than when the message was entered.
AllowancesSame ==
    \A p \in Pairs : allowance(Self, p[1], p[2]) = allowance(pre, p[1], p[2])

\* Balances differ from those at entry by a move of value from src to dst.
Moved(src, dst, value) ==
    \A a \in Accounts :
        balance_of(Self, a) =
            balance_of(pre, a) - (IF a = src THEN value ELSE 0)
                               + (IF a = dst THEN value ELSE 0)

\* C1: conservation. In every reachable state, after any sequence of
\* successful or failed transfer, transfer_from and approve calls, the sum of
\* all balances equals total_supply, and total_supply is the initial supply.
C1_Conservation ==
    /\ SumBalances = total_supply
    /\ total_supply = supply0

C1_Witness ==
    /\ last.op = "transfer_from"
    /\ last.result = Ok
    /\ last.value > 0
    /\ last.from # last.to
    /\ ncalls = MaxCalls

\* C2: construction. Right after new(s) by deployer d: total_supply = s, the
\* deployer holds s, every other account holds 0 and every allowance is 0.
C2_Construction ==
    last.op = "new" =>
        /\ total_supply = last.value
        /\ balance_of(Self, last.caller) = last.value
        /\ \A a \in Accounts \ {last.caller} : balance_of(Self, a) = 0
        /\ \A p \in Pairs : allowance(Self, p[1], p[2]) = 0

C2_Witness ==
    /\ last.op = "new"
    /\ last.value > 0
    /\ balance_of(Self, last.caller) = last.value

\* C3: transfer fails with InsufficentBalance exactly when the caller's balance
\* is below the value, never with InsufficentAllowance, and a failed transfer
\* leaves balances, allowances and total_supply as they were.
C3_TransferFailure ==
    last.op = "transfer" =>
        /\ (last.result = InsufficentBalance
                <=> balance_of(pre, last.caller) < last.value)
        /\ last.result # InsufficentAllowance
        /\ (last.result = InsufficentBalance => StorageUntouched)

C3_Witness ==
    /\ last.op = "transfer"
    /\ last.result = InsufficentBalance
    /\ balance_of(pre, last.caller) > 0
    /\ balance_of(pre, last.caller) < last.value

\* C4: a successful transfer to another account debits the caller by exactly
\* the value, credits the destination by exactly the value, and changes no
\* other balance, no allowance and not total_supply.
C4_TransferMoves ==
    (last.op = "transfer" /\ last.result = Ok /\ last.caller # last.to) =>
        /\ balance_of(Self, last.caller) = balance_of(pre, last.caller) - last.value
        /\ balance_of(Self, last.to) = balance_of(pre, last.to) + last.value
        /\ \A a \in Accounts \ {last.caller, last.to} :
               balance_of(Self, a) = balance_of(pre, a)
        /\ AllowancesSame
        /\ total_supply = pre.total_supply

C4_Witness ==
    /\ last.op = "transfer"
    /\ last.result = Ok
    /\ last.caller # last.to
    /\ last.value > 0
    /\ \E a \in Accounts \ {last.caller, last.to} : balance_of(pre, a) > 0

\* C5: transfer_from with an allowance below the value fails with
\* InsufficentAllowance whatever the balance of from is, and leaves the
\* storage as it was.
C5_AllowanceFirst ==
    (last.op = "transfer_from"
        /\ allowance(pre, last.from, last.caller) < last.value) =>
        /\ last.result = InsufficentAllowance
        /\ StorageUntouched

C5_Witness ==
    /\ last.op = "transfer_from"
    /\ allowance(pre, last.from, last.caller) > 0
    /\ allowance(pre, last.from, last.caller) < last.value
    /\ balance_of(pre, last.from) < last.value
    /\ last.result = InsufficentAllowance

\* C6: transfer_from with a sufficient allowance and an insufficient balance
\* fails with InsufficentBalance and consumes nothing: every allowance, every
\* balance and total_supply stay as they were.
C6_BalanceFailureKeepsAllowance ==
    (last.op = "transfer_from"
        /\ allowance(pre, last.from, last.caller) >= last.value
        /\ balance_of(pre, last.from) < last.value) =>
        /\ last.result = InsufficentBalance
        /\ StorageUntouched
        /\ AllowancesSame

C6_Witness ==
    /\ last.op = "transfer_from"
    /\ allowance(pre, last.from, last.caller) >= last.value
    /\ balance_of(pre, last.from) < last.value
    /\ last.result = InsufficentBalance

\* C7: transfer_from succeeds exactly when both the allowance of (from, caller)
\* and the balance of from cover the value; on success the value moves from
\* from to to, the allowance of (from, caller) drops by exactly the value and
\* every other allowance pair is unchanged.
C7_TransferFromSuccess ==
    last.op = "transfer_from" =>
        /\ (last.result = Ok
                <=> /\ allowance(pre, last.from, last.caller) >= last.value
                    /\ balance_of(pre, last.from) >= last.value)
        /\ (last.result = Ok =>
                /\ Moved(last.from, last.to, last.value)
                /\ allowance(Self, last.from, last.caller)
                       = allowance(pre, last.from, last.caller) - last.value
                /\ \A p \in Pairs \ {<<last.from, last.caller>>} :
                       allowance(Self, p[1], p[2]) = allowance(pre, p[1], p[2]))

C7_Witness ==
    /\ last.op = "transfer_from"
    /\ last.result = Ok
    /\ last.value > 0
    /\ last.to # last.caller
    /\ last.from # last.caller
    /\ allowance(pre, last.from, last.caller) > last.value

\* C8: approve always succeeds and sets the allowance of (caller, spender) to
\* the value, whatever the allowance was and whatever the caller holds.
C8_ApproveOverwrites ==
    last.op = "approve" =>
        /\ last.result = Ok
        /\ allowance(Self, last.caller, last.to) = last.value

C8_Witness ==
    /\ last.op = "approve"
    /\ last.result = Ok
    /\ allowance(pre, last.caller, last.to) > 0
    /\ last.value > 0
    /\ last.value # allowance(pre, last.caller, last.to)
    /\ last.value > balance_of(pre, last.caller)

\* C9: a transfer to oneself of at most one's balance succeeds, changes no
\* balance, and still emits one Transfer event from the caller to the caller.
C9_SelfTransfer ==
    (last.op = "transfer"
        /\ last.to = last.caller
        /\ last.value <= balance_of(pre, last.caller)) =>
        /\ last.result = Ok
        /\ \A a \in Accounts : balance_of(Self, a) = balance_of(pre, a)
        /\ events = Append(pre.events, Transfer(last.caller, last.caller, last.value))

C9_Witness ==
    /\ last.op = "transfer"
    /\ last.to = last.caller
    /\ last.value > 0
    /\ last.value = balance_of(pre, last.caller)
    /\ last.result = Ok

\* C10: every successful transfer, transfer_from or approve appends exactly
\* one event: Transfer from the caller for transfer, Transfer from the from
\* argument for transfer_from, Approve from the caller to the spender for
\* approve.
C10_OneEvent ==
    (last.result = Ok /\ last.op \in {"transfer", "transfer_from", "approve"}) =>
        events = Append(pre.events,
                        CASE last.op = "transfer" ->
                                 Transfer(last.caller, last.to, last.value)
                          [] last.op = "transfer_from" ->
                                 Transfer(last.from, last.to, last.value)
                          [] last.op = "approve" ->
                                 Approve(last.caller, last.to, last.value))

C10_Witness ==
    /\ last.op = "transfer_from"
    /\ last.result = Ok
    /\ last.from # last.caller
    /\ last.value > 0
    /\ Len(events) = 1

\* A message of the contract is being answered.
Answered == last.op \in {"transfer", "transfer_from", "approve"}

\* No balance query answers differently than when the message was entered.
BalancesSame ==
    \A a \in Accounts : balance_of(Self, a) = balance_of(pre, a)

\* C11: approve changes only the allowance of the pair (caller, spender):
\* every balance, total_supply and every other allowance pair, the reverse
\* pair included, keep their values.
C11_ApproveFrame ==
    last.op = "approve" =>
        /\ BalancesSame
        /\ balances = pre.balances
        /\ total_supply = pre.total_supply
        /\ \A p \in Pairs \ {<<last.caller, last.to>>} :
               allowance(Self, p[1], p[2]) = allowance(pre, p[1], p[2])

C11_Witness ==
    /\ last.op = "approve"
    /\ last.to # last.caller
    /\ last.value > 0
    /\ allowance(pre, last.to, last.caller) > 0
    /\ allowance(pre, last.to, last.caller) # last.value
    /\ allowance(pre, last.caller, last.to) # last.value

\* C12: no subtraction underflows. Whenever the debit is computed the balance
\* of from covers the value, whenever the allowance is decremented the
\* allowance read at entry covers the value, no message traps, and every
\* balance and allowance stays an unwrapped value of the Balance type.
C12_NoUnderflow ==
    /\ last.result # Panic
    /\ (last.op \in {"transfer", "transfer_from"} /\ last.result = Ok) =>
           /\ balance_of(pre, last.from) >= last.value
           /\ balance_of(Self, last.from) =
                  balance_of(pre, last.from) - last.value
                      + (IF last.to = last.from THEN last.value ELSE 0)
    /\ (last.op = "transfer_from" /\ last.result = Ok) =>
           /\ allowance(pre, last.from, last.caller) >= last.value
           /\ allowance(Self, last.from, last.caller) =
                  allowance(pre, last.from, last.caller) - last.value
    /\ \A a \in Accounts : balance_of(Self, a) \in Balance
    /\ \A p \in Pairs : allowance(Self, p[1], p[2]) \in Balance

C12_Witness ==
    /\ last.op = "transfer_from"
    /\ last.result = Ok
    /\ last.value > 0
    /\ balance_of(pre, last.from) = last.value
    /\ allowance(pre, last.from, last.caller) = last.value

\* C14: authorization of debits. The balance of an account decreases in a
\* step only if the step is a transfer called by that account, or a
\* transfer_from out of that account whose caller held an allowance from it
\* of at least the value, the value being positive.
C14_DebitAuthorized ==
    Answered =>
        \A a \in Accounts :
            balance_of(Self, a) < balance_of(pre, a) =>
                \/ last.op = "transfer" /\ last.caller = a
                \/ /\ last.op = "transfer_from"
                   /\ last.from = a
                   /\ last.value > 0
                   /\ allowance(pre, a, last.caller) >= last.value

C14_Witness ==
    /\ last.op = "transfer_from"
    /\ last.caller # last.from
    /\ balance_of(Self, last.from) < balance_of(pre, last.from)

\* C15: the allowance of (o, s) changes only through approve(s, _) called by
\* o or through a successful transfer_from out of o called by s; only the
\* former can increase it; transfer never changes any allowance.
C15_AllowanceFrame ==
    Answered =>
        /\ \A p \in Pairs :
               allowance(Self, p[1], p[2]) # allowance(pre, p[1], p[2]) =>
                   \/ /\ last.op = "approve"
                      /\ last.caller = p[1]
                      /\ last.to = p[2]
                   \/ /\ last.op = "transfer_from"
                      /\ last.result = Ok
                      /\ last.from = p[1]
                      /\ last.caller = p[2]
                      /\ allowance(Self, p[1], p[2]) < allowance(pre, p[1], p[2])
        /\ (last.op = "transfer" => AllowancesSame /\ allowances = pre.allowances)

C15_Witness ==
    /\ last.op = "transfer_from"
    /\ last.result = Ok
    /\ last.to # last.caller
    /\ allowance(Self, last.from, last.caller) < allowance(pre, last.from, last.caller)

\* C16: a transfer_from of value 0 succeeds for every caller, from and to,
\* also without any approval or balance; it emits Transfer{from, to, 0} and
\* leaves every balance and every allowance at its value.
C16_ZeroTransferFrom ==
    (last.op = "transfer_from" /\ last.value = 0) =>
        /\ last.result = Ok
        /\ events = Append(pre.events, Transfer(last.from, last.to, 0))
        /\ BalancesSame
        /\ AllowancesSame

C16_Witness ==
    /\ last.op = "transfer_from"
    /\ last.value = 0
    /\ last.result = Ok
    /\ last.from # last.caller
    /\ last.from \notin DOMAIN pre.balances
    /\ <<last.from, last.caller>> \notin DOMAIN pre.allowances

\* C17: a failed transfer or transfer_from emits no event: the event sequence
\* after the call is the one before it.
C17_FailureSilent ==
    (last.op \in {"transfer", "transfer_from"}
        /\ last.result \in {InsufficentBalance, InsufficentAllowance}) =>
        events = pre.events

C17_Witness ==
    /\ last.op = "transfer_from"
    /\ last.result = InsufficentBalance
    /\ events = <<>>

\* C18: every balance is at most total_supply in every reachable state, so
\* the credit to_balance + value of a transfer never exceeds total_supply and
\* never overflows the Balance type, also when the destination is the source
\* and its balance is read again after the debit.
C18_CreditBounded ==
    /\ total_supply \in Balance
    /\ \A a \in Accounts : balance_of(Self, a) <= total_supply
    /\ last.result # Panic
    /\ (last.op \in {"transfer", "transfer_from"} /\ last.result = Ok) =>
           /\ (IF last.to = last.from
               THEN balance_of(pre, last.from) - last.value
               ELSE balance_of(pre, last.to)) + last.value <= total_supply
           /\ balance_of(Self, last.to) =
                  (IF last.to = last.from
                   THEN balance_of(pre, last.from) - last.value
                   ELSE balance_of(pre, last.to)) + last.value

C18_Witness ==
    /\ last.op = "transfer"
    /\ last.result = Ok
    /\ last.to = last.caller
    /\ last.value > 0
    /\ balance_of(Self, last.to) = total_supply

====
